---- MODULE Spec2Model ----
(***************************************************************************)
(* Model of the Dyson Pure Cool protocol client (src/dyson.py).            *)
(*                                                                         *)
(* Two threads of control act on one DysonPureCool object:                 *)
(*   - the caller thread, which runs connect(), disconnect() and the       *)
(*     listener registration calls;                                        *)
(*   - the network thread of the MQTT client, which runs the callbacks     *)
(*     _on_connect, _on_disconnect and _on_message, one at a time.         *)
(* Each callback and connect() is split at the points where the other      *)
(* thread can observe or change the shared fields.                         *)
(***************************************************************************)
EXTENDS Integers, Sequences, FiniteSets, TLC

VARIABLES
    \* fields of DysonPureCool (src/dyson.py:47-54)
    connected,                  \* _connected (threading.Event)
    disconnected,               \* _disconnected (threading.Event)
    state_data_available,       \* _state_data_available (threading.Event)
    envionment_data_available,  \* _envionment_data_available (threading.Event)
    state_data,                 \* _state_data
    environmental_data,         \* _environmental_data
    error,                      \* _error
    update_listeners,           \* _update_listeners
    \* the caller thread
    pc,                         \* position of the caller inside connect()
    state,                      \* local `state` of _request_first_data
    outcome,                    \* how the last connect() ended
    \* the MQTT client (self._mqttc) and its network thread
    sess,                       \* session of the MQTT client: "none",
                                \* "connecting", "open", "refused" (by the
                                \* broker), "lost" (dropped), "closed" (by
                                \* the client's disconnect)
    subscribed,                 \* topics subscribed on the open session
    disc_pending,               \* an on_disconnect callback is due
    published,                  \* messages published during this connect()
    npc,                        \* position of the network thread
    rc,                         \* return code of the CONNACK being handled
    msg,                        \* inbound message being handled
    idx,                        \* position of the listener iteration
    net_exc,                    \* exception that escaped a callback
    \* history of the current connect() call and of the current message
    calls,                      \* connect() calls made so far
    nmsgs,                      \* inbound messages delivered so far
    elapsed,                    \* seconds this connect() spent in expired waits
    ack_in_call,                \* CONNACK code delivered during this call
    woken_by,                   \* CONNACK code that ended the connected wait
    state_in_call,              \* a state message was stored during this call
    env_in_call,                \* an environment message was stored during it
    sub_at_request,             \* subscribed when the first data was requested
    after_noack,                \* the previous connect() ended unacknowledged
    invoked,                    \* listener invocations for the current message
    reg_at_start,               \* listeners registered when the message came
    handles,                    \* listeners whose deregistration handle exists
    hub_exc,                    \* exception raised by the last handle call
    last_handle,                \* the last handle call and the list before it
    \* the last read or command call of a caller
    call,                       \* the call: its name and its arguments
    result,                     \* what the call returned or raised
    sent,                       \* messages the call published
    \* a lookup that runs while the network thread handles a message
    rpc,                        \* position of the reader inside the lookup
    seen,                       \* the snapshots when the lookup began
    \* history of the registrations that change during a dispatch
    touched                     \* listeners added or removed meanwhile

vars == << connected, disconnected, state_data_available,
           envionment_data_available, state_data, environmental_data, error,
           update_listeners, pc, state, outcome, sess, subscribed,
           disc_pending, published, npc, rc, msg, idx, net_exc, calls, nmsgs,
           elapsed, ack_in_call, woken_by, state_in_call, env_in_call,
           sub_at_request, after_noack, invoked, reg_at_start, handles,
           hub_exc, last_handle, call, result, sent, rpc, seen,
           touched >>

dataVars == << state_data_available, envionment_data_available, state_data,
              environmental_data, update_listeners >>

msgVars == << msg, idx, net_exc, nmsgs, invoked, reg_at_start, handles,
             hub_exc, last_handle >>

callVars == << calls, elapsed, ack_in_call, state_in_call, env_in_call,
              sub_at_request, after_noack >>

cmdVars == << call, result, sent, rpc, seen, touched >>

-----------------------------------------------------------------------------
(* Bounds of the model *)

MaxConnects == 3
MaxMsgs == 2
MaxListeners == 3
SpeedMargin == 3
AngleMargin == 3

-----------------------------------------------------------------------------
(* Program constants *)

TIMEOUT == 10

CONNACK_ACCEPTED == 0
CONNACK_REFUSED_PROTOCOL_VERSION == 1
CONNACK_REFUSED_IDENTIFIER_REJECTED == 2
CONNACK_REFUSED_SERVER_UNAVAILABLE == 3
CONNACK_REFUSED_BAD_USERNAME_PASSWORD == 4
CONNACK_REFUSED_NOT_AUTHORIZED == 5

DYSON_CURRENT_STATE == "CURRENT-STATE"
DYSON_STATE_CHANGE == "STATE-CHANGE"
DYSON_ENVIRONMENTAL_CURRENT_SENSOR_DATA == "ENVIRONMENTAL-CURRENT-SENSOR-DATA"

DYSON_AUTO_MODE == "Auto mode"
DYSON_NIGHT_MODE == "Night mode"
DYSON_AUTO_NIGHT_MODE == "Auto + Night mode"

\* Python's None, for _state_data, _environmental_data
None == [isNone |-> TRUE]
\* Python's None, for _error and for "no CONNACK"
NoError == "None"
NoAck == 0 - 1

\* a body object absent from a payload
Missing == [isMissing |-> TRUE]

RefusalCodes == { CONNACK_REFUSED_PROTOCOL_VERSION,
                  CONNACK_REFUSED_IDENTIFIER_REJECTED,
                  CONNACK_REFUSED_SERVER_UNAVAILABLE,
                  CONNACK_REFUSED_BAD_USERNAME_PASSWORD,
                  CONNACK_REFUSED_NOT_AUTHORIZED }

\* the return codes a broker can send
ReturnCodes == {CONNACK_ACCEPTED} \cup RefusalCodes

\* JSON values of a payload and of a STATE-SET: a string, a list of two
\* strings [previous, current], or null (Python's None)
Str(s) == << "str", s >>
Pair(a, b) == << "list", a, b >>
NoValue == << "None" >>

\* "product-state" objects and "data" objects the device sends
StatePayloads == { [fpwr |-> Str("ON")], [fpwr |-> Str("OFF")] }
EnvPayloads == { [pm25 |-> Str("0004")] }

\* inbound payloads: the three recognised discriminators with their body
Messages ==
    [ msg : {DYSON_CURRENT_STATE, DYSON_STATE_CHANGE}, body : StatePayloads ]
    \cup [ msg : {DYSON_ENVIRONMENTAL_CURRENT_SENSOR_DATA}, body : EnvPayloads ]

\* what the handler finds in place of payload["msg"] when the payload is
\* not a JSON text, and when it is a JSON object without the key "msg"
NotJson == "(not JSON)"
NoKey == "(no msg)"

\* inbound payloads the handler cannot use: bytes that are not JSON, an
\* object without "msg", a recognised discriminator without its body
MalformedMessages ==
    [ msg : {NotJson}, body : {Missing} ]
    \cup [ msg : {NoKey}, body : {[fpwr |-> Str("ON")]} ]
    \cup [ msg : {DYSON_CURRENT_STATE, DYSON_STATE_CHANGE,
                  DYSON_ENVIRONMENTAL_CURRENT_SENSOR_DATA}, body : {Missing} ]

\* inbound payloads with a discriminator the client does not know
OtherMessages == [ msg : {"HELLO"}, body : {Missing} ]

\* everything a device or a broker can deliver on the status topic
Payloads == Messages \cup MalformedMessages \cup OtherMessages

NoMsg == [ msg |-> "none", body |-> Missing ]

\* callables a caller can register
Listeners == {"f", "g"}

NoHandle == [ func |-> "none", before |-> << >> ]

\* how a call ends: it returns a value, returns None or raises
Return(v) == [ exc |-> "None", val |-> << v >> ]
ReturnNone == [ exc |-> "None", val |-> << >> ]
Raise(e) == [ exc |-> e, val |-> << >> ]

NoCall == [ op |-> "none", args |-> << >> ]

-----------------------------------------------------------------------------
(* The MQTT client *)

\* the device type and the serial number the client was constructed with
device_type == "438"
serial == "SERIAL"

\* the topics of lines 44-45, as their segments between the slashes
status_topic == << device_type, serial, "status", "current" >>
command_topic == << device_type, serial, "command" >>

\* self._mqttc.subscribe(topic): sent only on an open session; `sub` is
\* the set of topics the session is subscribed to
MqttSubscribe(s, sub, topic) == IF s = "open" THEN sub \cup { topic } ELSE sub

\* request_current_state, lines 149-154, and request_envionment_data, lines
\* 159-164: published on the command topic without a QoS argument, which is
\* QoS 0 (the "time" stamp is left out)
request_current_state ==
    [ topic |-> command_topic, msg |-> "REQUEST-CURRENT-STATE", qos |-> 0 ]

request_envionment_data ==
    [ topic |-> command_topic,
      msg |-> "REQUEST-PRODUCT-ENVIRONMENT-CURRENT-SENSOR-DATA", qos |-> 0 ]

\* a disconnect that reports a disconnection on every call
MqttDisconnect_AlwaysReports ==
    /\ sess' = IF sess = "none" THEN "none" ELSE "closed"
    /\ disc_pending' = TRUE
    /\ subscribed' = { }

\* self._mqttc.disconnect(): closes the session; an open session reports
\* the disconnection through on_disconnect
MqttDisconnect ==
    /\ sess' = IF sess = "none" THEN "none" ELSE "closed"
    /\ disc_pending' = (disc_pending \/ sess = "open")
    /\ subscribed' = { }

-----------------------------------------------------------------------------
(* _on_connect: classification of the return code *)

ClassifyError(code, old) ==
    CASE code = CONNACK_REFUSED_PROTOCOL_VERSION -> "DysonCannotConnect"
      [] code = CONNACK_REFUSED_IDENTIFIER_REJECTED -> "DysonCannotConnect"
      [] code = CONNACK_REFUSED_SERVER_UNAVAILABLE -> "DysonCannotConnect"
      [] code = CONNACK_REFUSED_BAD_USERNAME_PASSWORD -> "DysonInvalidAuth"
      [] code = CONNACK_REFUSED_NOT_AUTHORIZED -> "DysonCannotConnect"
      [] code = CONNACK_ACCEPTED -> NoError
      [] OTHER -> old

-----------------------------------------------------------------------------
(* Initial state: the object after __init__ *)

Init ==
    /\ connected = FALSE
    /\ disconnected = FALSE
    /\ state_data_available = FALSE
    /\ envionment_data_available = FALSE
    /\ state_data = None
    /\ environmental_data = None
    /\ error = NoError
    /\ update_listeners = << >>
    /\ pc = "idle"
    /\ state = FALSE
    /\ outcome = "none"
    /\ sess = "none"
    /\ subscribed = { }
    /\ disc_pending = FALSE
    /\ published = << >>
    /\ npc = "idle"
    /\ rc = NoAck
    /\ msg = NoMsg
    /\ idx = 0
    /\ net_exc = "None"
    /\ calls = 0
    /\ nmsgs = 0
    /\ elapsed = 0
    /\ ack_in_call = NoAck
    /\ woken_by = NoAck
    /\ state_in_call = FALSE
    /\ env_in_call = FALSE
    /\ sub_at_request = FALSE
    /\ after_noack = FALSE
    /\ invoked = << >>
    /\ reg_at_start = << >>
    /\ handles = {}
    /\ hub_exc = "None"
    /\ last_handle = NoHandle
    /\ call = NoCall
    /\ result = ReturnNone
    /\ sent = << >>
    /\ rpc = "idle"
    /\ seen = << >>
    /\ touched = { }

-----------------------------------------------------------------------------
(* connect(), on the caller thread *)

\* a connect() that re-arms the first-data latches
Connect_Begin_Rearm ==
    /\ pc = "idle"
    /\ calls < MaxConnects
    /\ sess # "open"
    /\ disconnected' = FALSE
    /\ sess' = "connecting"
    /\ pc' = "wait_connected"
    /\ outcome' = "none"
    /\ state' = FALSE
    /\ published' = << >>
    /\ calls' = calls + 1
    /\ elapsed' = 0
    /\ ack_in_call' = NoAck
    /\ woken_by' = NoAck
    /\ state_in_call' = FALSE
    /\ env_in_call' = FALSE
    /\ sub_at_request' = FALSE
    /\ after_noack' = (outcome = "DysonNotConnected" /\ ack_in_call = NoAck)
    /\ state_data_available' = FALSE
    /\ envionment_data_available' = FALSE
    /\ UNCHANGED << connected, error, state_data, environmental_data,
                    update_listeners, subscribed, disc_pending, npc, rc,
                    msgVars >>
    /\ UNCHANGED cmdVars

\* connect, lines 59-64: clear the disconnected event, connect_async and
\* loop_start. It is called on a client that holds no open session.
Connect_Begin ==
    /\ pc = "idle"
    /\ calls < MaxConnects
    /\ sess # "open"
    /\ disconnected' = FALSE
    /\ sess' = "connecting"
    /\ pc' = "wait_connected"
    /\ outcome' = "none"
    /\ state' = FALSE
    /\ published' = << >>
    /\ calls' = calls + 1
    /\ elapsed' = 0
    /\ ack_in_call' = NoAck
    /\ woken_by' = NoAck
    /\ state_in_call' = FALSE
    /\ env_in_call' = FALSE
    /\ sub_at_request' = FALSE
    /\ after_noack' = (outcome = "DysonNotConnected" /\ ack_in_call = NoAck)
    /\ UNCHANGED << connected, error, dataVars, subscribed, disc_pending,
                    npc, rc, msgVars >>
    /\ UNCHANGED cmdVars

\* connect, line 66: self._connected.wait(timeout=TIMEOUT) ends, either
\* because the event is set or because the timeout expired
Wait_Connected ==
    /\ pc = "wait_connected"
    /\ pc' = IF connected THEN "check_error" ELSE "fail"
    /\ woken_by' = IF connected THEN ack_in_call ELSE woken_by
    /\ elapsed' = IF connected THEN elapsed ELSE elapsed + TIMEOUT
    /\ UNCHANGED << connected, disconnected, error, dataVars, state, outcome,
                    sess, subscribed, disc_pending, published, npc, rc,
                    msgVars, calls, ack_in_call, state_in_call, env_in_call,
                    sub_at_request, after_noack >>
    /\ UNCHANGED cmdVars

\* connect, line 67: if self._error is not None
Check_Error ==
    /\ pc = "check_error"
    /\ pc' = IF error # NoError THEN "raise_error" ELSE "request"
    /\ UNCHANGED << connected, disconnected, error, dataVars, state, outcome,
                    sess, subscribed, disc_pending, published, npc, rc,
                    msgVars, callVars, woken_by >>
    /\ UNCHANGED cmdVars

\* a connect() that raises the stored error without disconnecting
Raise_Error_NoDisconnect ==
    /\ pc = "raise_error"
    /\ outcome' = IF error = NoError THEN "TypeError" ELSE error
    /\ pc' = "idle"
    /\ UNCHANGED << connected, disconnected, error, dataVars, state, sess,
                    subscribed, disc_pending, published, npc, rc, msgVars,
                    callVars, woken_by >>
    /\ UNCHANGED cmdVars

\* connect, lines 68-69: self._mqttc.disconnect(); raise self._error
\* (raising None is a TypeError)
Raise_Error ==
    /\ pc = "raise_error"
    /\ MqttDisconnect
    /\ outcome' = IF error = NoError THEN "TypeError" ELSE error
    /\ pc' = "idle"
    /\ UNCHANGED << connected, disconnected, error, dataVars, state,
                    published, npc, rc, msgVars, callVars, woken_by >>
    /\ UNCHANGED cmdVars

\* _request_first_data, lines 138-139: request_current_state() and
\* request_envionment_data() publish one message each
Request_First_Data ==
    /\ pc = "request"
    /\ published' = published \o << request_current_state,
                          request_envionment_data >>
    /\ sub_at_request' = (status_topic \in subscribed)
    /\ pc' = "wait_state"
    /\ UNCHANGED << connected, disconnected, error, dataVars, state, outcome,
                    sess, subscribed, disc_pending, npc, rc, msgVars, calls,
                    elapsed, ack_in_call, woken_by, state_in_call,
                    env_in_call,
                    after_noack >>
    /\ UNCHANGED cmdVars

\* _request_first_data, line 141:
\* state = self._state_data_available.wait(timeout=TIMEOUT)
Wait_State ==
    /\ pc = "wait_state"
    /\ state' = state_data_available
    /\ elapsed' = IF state_data_available THEN elapsed ELSE elapsed + TIMEOUT
    /\ pc' = "wait_envionment"
    /\ UNCHANGED << connected, disconnected, error, dataVars, outcome, sess,
                    subscribed, disc_pending, published, npc, rc, msgVars,
                    calls, ack_in_call, woken_by, state_in_call, env_in_call,
                    sub_at_request, after_noack >>
    /\ UNCHANGED cmdVars

\* _request_first_data, lines 142-144, and connect, lines 74-75:
\* envionment = self._envionment_data_available.wait(timeout=TIMEOUT);
\* connect returns when state and envionment
Wait_Envionment ==
    /\ pc = "wait_envionment"
    /\ elapsed' = IF envionment_data_available THEN elapsed
                  ELSE elapsed + TIMEOUT
    /\ pc' = IF state /\ envionment_data_available THEN "idle" ELSE "fail"
    /\ outcome' = IF state /\ envionment_data_available THEN "ok" ELSE outcome
    /\ UNCHANGED << connected, disconnected, error, dataVars, state, sess,
                    subscribed, disc_pending, published, npc, rc, msgVars,
                    calls, ack_in_call, woken_by, state_in_call, env_in_call,
                    sub_at_request, after_noack >>
    /\ UNCHANGED cmdVars

\* connect, lines 78-79: self.disconnect(); raise DysonNotConnected
Connect_Fail ==
    /\ pc = "fail"
    /\ MqttDisconnect
    /\ outcome' = "DysonNotConnected"
    /\ pc' = "idle"
    /\ UNCHANGED << connected, disconnected, error, dataVars, state,
                    published, npc, rc, msgVars, callVars, woken_by >>
    /\ UNCHANGED cmdVars

\* disconnect, lines 82-84, called in any state of the client, also by
\* another caller while connect() is waiting
Disconnect ==
    /\ MqttDisconnect
    /\ UNCHANGED << connected, disconnected, error, dataVars, pc, state,
                    outcome, published, npc, rc, msgVars, callVars,
                    woken_by >>
    /\ UNCHANGED cmdVars

\* request_envionment_data, lines 159-164, called by the poll of the update
\* coordinator (src/coordinator.py:37), which exists once connect() has
\* returned normally: one request is published (its "time" stamp is left
\* out)
Request_Envionment_Data ==
    /\ pc = "idle"
    /\ outcome = "ok"
    /\ call = NoCall
    /\ call' = [ op |-> "request_envionment_data", args |-> << >> ]
    /\ result' = ReturnNone
    /\ sent' = << request_envionment_data >>
    /\ UNCHANGED << rpc, seen, touched >>
    /\ UNCHANGED << connected, disconnected, error, dataVars, pc, state,
                    outcome, sess, subscribed, disc_pending, published, npc,
                    rc, msgVars, callVars, woken_by >>

-----------------------------------------------------------------------------
(* Callbacks, on the network thread *)

\* A CONNACK arrives and _on_connect starts, lines 90-91:
\* self._connected.set() wakes a caller blocked in the wait of line 66;
\* self._disconnected.clear(). A refusing broker closes the connection,
\* which the client reports through on_disconnect after this callback;
\* the client's loop stays up until the client disconnects.
OnConnect_Set(code) ==
    /\ sess = "connecting"
    /\ npc = "idle"
    /\ net_exc = "None"
    /\ ~disc_pending
    /\ rc' = code
    /\ connected' = TRUE
    /\ disconnected' = FALSE
    /\ pc' = IF pc = "wait_connected" THEN "check_error" ELSE pc
    /\ woken_by' = IF pc = "wait_connected" THEN code ELSE woken_by
    /\ ack_in_call' = code
    /\ sess' = IF code = CONNACK_ACCEPTED THEN "open" ELSE "refused"
    /\ disc_pending' = (code # CONNACK_ACCEPTED)
    /\ npc' = "on_connect_rc"
    /\ UNCHANGED << error, dataVars, state, outcome, subscribed, published,
                    msgVars, calls, elapsed, state_in_call, env_in_call,
                    sub_at_request, after_noack >>
    /\ UNCHANGED cmdVars

\* _on_connect, lines 93-105: the return code sets self._error; the accepted
\* code subscribes to the status topic and resets self._error
OnConnect_Classify ==
    /\ npc = "on_connect_rc"
    /\ error' = ClassifyError(rc, error)
    /\ subscribed' = IF rc = CONNACK_ACCEPTED
                     THEN MqttSubscribe(sess, subscribed, status_topic)
                     ELSE subscribed
    /\ npc' = "on_connect_subscribe"
    /\ UNCHANGED << connected, disconnected, dataVars, pc, state, outcome,
                    sess, disc_pending, published, rc, msgVars, callVars,
                    woken_by >>
    /\ UNCHANGED cmdVars

\* _on_connect, line 107: self._mqttc.subscribe(self._status_topic)
OnConnect_Subscribe ==
    /\ npc = "on_connect_subscribe"
    /\ subscribed' = MqttSubscribe(sess, subscribed, status_topic)
    /\ npc' = "idle"
    /\ UNCHANGED << connected, disconnected, error, dataVars, pc, state,
                    outcome, sess, disc_pending, published, rc, msgVars,
                    callVars, woken_by >>
    /\ UNCHANGED cmdVars

\* The broker or the network drops an open session
Connection_Lost ==
    /\ sess = "open"
    /\ sess' = "lost"
    /\ subscribed' = { }
    /\ disc_pending' = TRUE
    /\ UNCHANGED << connected, disconnected, error, dataVars, pc, state,
                    outcome, published, npc, rc, msgVars, callVars,
                    woken_by >>
    /\ UNCHANGED cmdVars

\* a callback that answers a dropped session with a new connection request
OnDisconnect_Reconnects ==
    /\ npc = "idle"
    /\ net_exc = "None"
    /\ disc_pending
    /\ connected' = FALSE
    /\ disconnected' = TRUE
    /\ disc_pending' = FALSE
    /\ sess' = IF sess = "lost" THEN "connecting" ELSE sess
    /\ UNCHANGED << error, dataVars, pc, state, outcome, subscribed,
                    published, npc, rc, msgVars, callVars, woken_by >>
    /\ UNCHANGED cmdVars

\* _on_disconnect, lines 113-115
OnDisconnect ==
    /\ npc = "idle"
    /\ net_exc = "None"
    /\ disc_pending
    /\ connected' = FALSE
    /\ disconnected' = TRUE
    /\ disc_pending' = FALSE
    /\ UNCHANGED << error, dataVars, pc, state, outcome, sess, subscribed,
                    published, npc, rc, msgVars, callVars, woken_by >>
    /\ UNCHANGED cmdVars

\* A payload arrives on the status topic and _on_message starts, lines
\* 121-123 and 130-131: json.loads raises on bytes that are not JSON,
\* payload["msg"] raises KeyError when the key is absent, and the
\* discriminator selects the event that is set. An exception leaves the
\* callback.
OnMessage_Begin(m) ==
    /\ sess = "open"
    /\ status_topic \in subscribed
    /\ npc = "idle"
    /\ net_exc = "None"
    /\ nmsgs < MaxMsgs
    /\ msg' = m
    /\ nmsgs' = nmsgs + 1
    /\ invoked' = << >>
    /\ reg_at_start' = update_listeners
    /\ net_exc' = CASE m.msg = NotJson -> "JSONDecodeError"
                    [] m.msg = NoKey -> "KeyError"
                    [] OTHER -> net_exc
    /\ npc' = CASE m.msg \in {DYSON_CURRENT_STATE, DYSON_STATE_CHANGE}
                      -> "store_state"
                [] m.msg = DYSON_ENVIRONMENTAL_CURRENT_SENSOR_DATA
                      -> "store_environment"
                [] OTHER -> "idle"
    /\ state_data_available' =
           (state_data_available
               \/ m.msg \in {DYSON_CURRENT_STATE, DYSON_STATE_CHANGE})
    /\ state_in_call' =
           (state_in_call
               \/ (m.msg \in {DYSON_CURRENT_STATE, DYSON_STATE_CHANGE}
                      /\ pc # "idle"))
    /\ envionment_data_available' =
           (envionment_data_available
               \/ m.msg = DYSON_ENVIRONMENTAL_CURRENT_SENSOR_DATA)
    /\ env_in_call' =
           (env_in_call
               \/ (m.msg = DYSON_ENVIRONMENTAL_CURRENT_SENSOR_DATA
                      /\ pc # "idle"))
    /\ UNCHANGED << connected, disconnected, error, state_data,
                    environmental_data, update_listeners, pc, state, outcome,
                    sess, subscribed, disc_pending, published, rc, idx,
                    handles, hub_exc, last_handle, calls, elapsed,
                    ack_in_call, woken_by, sub_at_request, after_noack >>
    /\ UNCHANGED cmdVars

\* a handler that merges the product-state into the snapshot it holds
OnMessage_StoreState_Merge ==
    /\ npc = "store_state"
    /\ state_data' =
           IF msg.body = Missing THEN state_data
           ELSE IF state_data = None THEN msg.body
           ELSE [ f \in DOMAIN state_data \cup DOMAIN msg.body |->
                      IF f \in DOMAIN msg.body THEN msg.body[f]
                      ELSE state_data[f] ]
    /\ net_exc' = IF msg.body = Missing THEN "KeyError" ELSE net_exc
    /\ idx' = 0
    /\ npc' = IF msg.msg = DYSON_STATE_CHANGE /\ msg.body # Missing
              THEN "dispatch" ELSE "idle"
    /\ UNCHANGED << connected, disconnected, error, state_data_available,
                    envionment_data_available, environmental_data,
                    update_listeners, pc, state, outcome, sess, subscribed,
                    disc_pending, published, rc, msg, nmsgs, invoked,
                    reg_at_start, handles, hub_exc, last_handle, callVars,
                    woken_by >>
    /\ UNCHANGED cmdVars

\* _on_message, lines 124-126: the snapshot is replaced, and a STATE-CHANGE
\* goes on to the listeners; payload["product-state"] raises KeyError when
\* the body is absent
OnMessage_StoreState ==
    /\ npc = "store_state"
    /\ state_data' = IF msg.body = Missing THEN state_data ELSE msg.body
    /\ net_exc' = IF msg.body = Missing THEN "KeyError" ELSE net_exc
    /\ idx' = 0
    /\ npc' = IF msg.msg = DYSON_STATE_CHANGE /\ msg.body # Missing
              THEN "dispatch" ELSE "idle"
    /\ UNCHANGED << connected, disconnected, error, state_data_available,
                    envionment_data_available, environmental_data,
                    update_listeners, pc, state, outcome, sess, subscribed,
                    disc_pending, published, rc, msg, nmsgs, invoked,
                    reg_at_start, handles, hub_exc, last_handle, callVars,
                    woken_by >>
    /\ UNCHANGED cmdVars

\* _on_message, lines 127-128: one step of
\* `for func in self._update_listeners: func(self, self._state_data)`.
\* The iteration reads the list by position; a listener returns or raises,
\* and an exception leaves the callback.
OnMessage_Dispatch ==
    /\ npc = "dispatch"
    /\ IF idx < Len(update_listeners)
       THEN \E raises \in BOOLEAN :
              /\ invoked' = Append(invoked, [ func |-> update_listeners[idx + 1],
                                              data |-> state_data ])
              /\ idx' = idx + 1
              /\ npc' = IF raises THEN "idle" ELSE "dispatch"
              /\ net_exc' = IF raises THEN "ListenerError" ELSE net_exc
       ELSE /\ npc' = "idle"
            /\ UNCHANGED << invoked, idx, net_exc >>
    /\ UNCHANGED << connected, disconnected, error, dataVars, pc, state,
                    outcome, sess, subscribed, disc_pending, published, rc,
                    msg, nmsgs, reg_at_start, handles, hub_exc, last_handle,
                    callVars, woken_by >>
    /\ UNCHANGED cmdVars

\* _on_message, line 132: the environment snapshot is replaced;
\* payload["data"] raises KeyError when the body is absent
OnMessage_StoreEnvironment ==
    /\ npc = "store_environment"
    /\ environmental_data' =
           IF msg.body = Missing THEN environmental_data ELSE msg.body
    /\ net_exc' = IF msg.body = Missing THEN "KeyError" ELSE net_exc
    /\ npc' = "idle"
    /\ UNCHANGED << connected, disconnected, error, state_data_available,
                    envionment_data_available, state_data, update_listeners,
                    pc, state, outcome, sess, subscribed, disc_pending,
                    published, rc, msg, idx, nmsgs, invoked, reg_at_start,
                    handles, hub_exc, last_handle, callVars, woken_by >>
    /\ UNCHANGED cmdVars

\* _on_message, lines 118-132
OnMessage ==
    \/ \E m \in Payloads : OnMessage_Begin(m)
    \/ OnMessage_StoreState
    \/ OnMessage_Dispatch
    \/ OnMessage_StoreEnvironment

-----------------------------------------------------------------------------
(* Listener registration, on the caller thread *)

\* a removal that drops every item equal to x
ListRemove_All(seq, f) ==
    SelectSeq(seq, LAMBDA x : x # f)

\* list.remove(x): the first item equal to x is removed
ListRemove(seq, f) ==
    LET i == CHOOSE k \in 1..Len(seq) :
                 seq[k] = f /\ \A j \in 1..(k - 1) : seq[j] # f
    IN  SubSeq(seq, 1, i - 1) \o SubSeq(seq, i + 1, Len(seq))

\* add_update_listener, lines 198-199: the callable is appended and a
\* handle that removes it is returned
Add_Update_Listener(f) ==
    /\ pc = "idle"
    /\ Len(update_listeners) < MaxListeners
    /\ update_listeners' = Append(update_listeners, f)
    /\ handles' = handles \cup {f}
    /\ hub_exc' = "None"
    /\ last_handle' = NoHandle
    /\ UNCHANGED << connected, disconnected, error, state_data_available,
                    envionment_data_available, state_data, environmental_data,
                    pc, state, outcome, sess, subscribed, disc_pending,
                    published, npc, rc, msg, idx, net_exc, nmsgs, invoked,
                    reg_at_start, callVars, woken_by >>
    /\ UNCHANGED << call, result, sent, rpc, seen >>

\* the handle of line 199 is called:
\* lambda: self._update_listeners.remove(func), a ValueError when func is
\* not in the list
Call_Handle(f) ==
    /\ pc = "idle"
    /\ f \in handles
    /\ last_handle' = [ func |-> f, before |-> update_listeners ]
    /\ IF \E k \in 1..Len(update_listeners) : update_listeners[k] = f
       THEN /\ update_listeners' = ListRemove(update_listeners, f)
            /\ hub_exc' = "None"
       ELSE /\ hub_exc' = "ValueError"
            /\ UNCHANGED update_listeners
    /\ UNCHANGED << connected, disconnected, error, state_data_available,
                    envionment_data_available, state_data, environmental_data,
                    pc, state, outcome, sess, subscribed, disc_pending,
                    published, npc, rc, msg, idx, net_exc, nmsgs, invoked,
                    reg_at_start, handles, callVars, woken_by >>
    /\ UNCHANGED << call, result, sent, rpc, seen >>

-----------------------------------------------------------------------------
(* The connect life cycle: one caller, one broker *)

Next ==
    \/ Connect_Begin
    \/ Wait_Connected
    \/ Check_Error
    \/ Raise_Error
    \/ Request_First_Data
    \/ Wait_State
    \/ Wait_Envionment
    \/ Connect_Fail
    \/ Disconnect
    \/ Request_Envionment_Data
    \/ \E code \in ReturnCodes : OnConnect_Set(code)
    \/ OnConnect_Classify
    \/ OnConnect_Subscribe
    \/ Connection_Lost
    \/ OnDisconnect
    \/ OnMessage

Spec == Init /\ [][Next]_vars

-----------------------------------------------------------------------------
(* The notification hub of a connected client *)

\* the client after a successful connect()
HubInit ==
    /\ connected = TRUE
    /\ disconnected = FALSE
    /\ state_data_available = TRUE
    /\ envionment_data_available = TRUE
    /\ state_data = [fpwr |-> Str("OFF"), fnsp |-> Str("0004")]
    /\ environmental_data = [pm25 |-> Str("0004")]
    /\ error = NoError
    /\ update_listeners = << >>
    /\ pc = "idle"
    /\ state = TRUE
    /\ outcome = "ok"
    /\ sess = "open"
    /\ subscribed = { status_topic }
    /\ disc_pending = FALSE
    /\ published = << request_current_state,
                          request_envionment_data >>
    /\ npc = "idle"
    /\ rc = CONNACK_ACCEPTED
    /\ msg = NoMsg
    /\ idx = 0
    /\ net_exc = "None"
    /\ calls = 1
    /\ nmsgs = 0
    /\ elapsed = 0
    /\ ack_in_call = CONNACK_ACCEPTED
    /\ woken_by = CONNACK_ACCEPTED
    /\ state_in_call = TRUE
    /\ env_in_call = TRUE
    /\ sub_at_request = TRUE
    /\ after_noack = FALSE
    /\ invoked = << >>
    /\ reg_at_start = << >>
    /\ handles = {}
    /\ hub_exc = "None"
    /\ last_handle = NoHandle
    /\ call = NoCall
    /\ result = ReturnNone
    /\ sent = << >>
    /\ rpc = "idle"
    /\ seen = << >>
    /\ touched = { }

\* listeners are registered and removed between messages
HubSeqNext ==
    \/ \E f \in Listeners :
           npc = "idle" /\ Add_Update_Listener(f) /\ UNCHANGED touched
    \/ \E f \in Listeners :
           npc = "idle" /\ Call_Handle(f) /\ UNCHANGED touched
    \/ OnMessage

SpecHubSeq == HubInit /\ [][HubSeqNext]_vars

\* listeners are registered and removed at any time, also while the network
\* thread is inside _on_message
HubNext ==
    \/ \E f \in Listeners : Add_Update_Listener(f) /\ UNCHANGED touched
    \/ \E f \in Listeners : Call_Handle(f) /\ UNCHANGED touched
    \/ OnMessage

SpecHub == HubInit /\ [][HubNext]_vars

\* The dispatch of one message, with the history of the registrations that
\* change while the network thread is inside _on_message: `touched` holds
\* the listeners added or removed since the message arrived.
Touch(f) == touched' = IF npc = "idle" THEN touched ELSE touched \cup { f }

HubRaceNext ==
    \/ \E f \in Listeners : Add_Update_Listener(f) /\ Touch(f)
    \/ \E f \in Listeners : Call_Handle(f) /\ Touch(f)
    \/ \E m \in Payloads : nmsgs = 0 /\ OnMessage_Begin(m)
    \/ OnMessage_StoreState
    \/ OnMessage_Dispatch
    \/ OnMessage_StoreEnvironment

SpecHubRace == HubInit /\ [][HubRaceNext]_vars

-----------------------------------------------------------------------------
(* The read model: _get_field_value and the derived values *)

\* isinstance(value, list): the device reports some fields as the list
\* [previous, current]
IsList(v) == v[1] = "list"

\* a lookup that asks the environment snapshot first
get_field_value_EnvFirst(field) ==
    IF state_data = None \/ environmental_data = None THEN Raise("TypeError")
    ELSE IF field \in DOMAIN environmental_data
    THEN Return(environmental_data[field])
    ELSE IF field \in DOMAIN state_data
    THEN IF IsList(state_data[field]) THEN Return(Str(state_data[field][3]))
         ELSE Return(state_data[field])
    ELSE ReturnNone

\* _get_field_value, lines 184-192; `field in None` is a TypeError
get_field_value(field) ==
    IF state_data = None THEN Raise("TypeError")
    ELSE IF field \in DOMAIN state_data
    THEN IF IsList(state_data[field]) THEN Return(Str(state_data[field][3]))
         ELSE Return(state_data[field])
    ELSE IF environmental_data = None THEN Raise("TypeError")
    ELSE IF field \in DOMAIN environmental_data
    THEN Return(environmental_data[field])
    ELSE ReturnNone

\* the value a lookup returned, None included
Value(r) == IF r.val = << >> THEN NoValue ELSE r.val[1]

\* decimal digits of a string
DigitChars == << "0", "1", "2", "3", "4", "5", "6", "7", "8", "9" >>
Char(s, i) == SubSeq(s, i, i)
IsDigit(c) == \E d \in 1..Len(DigitChars) : DigitChars[d] = c
DigitValue(c) == (CHOOSE d \in 1..Len(DigitChars) : DigitChars[d] = c) - 1
IsDigits(s) == Len(s) > 0 /\ \A i \in 1..Len(s) : IsDigit(Char(s, i))

RECURSIVE DigitsValue(_)
DigitsValue(s) ==
    IF Len(s) = 0 THEN 0
    ELSE DigitsValue(SubSeq(s, 1, Len(s) - 1)) * Len(DigitChars)
             + DigitValue(Char(s, Len(s)))

\* int(s) of a string: an optionally signed run of digits, a ValueError
\* otherwise
ParseInt(s) ==
    IF IsDigits(s) THEN Return(DigitsValue(s))
    ELSE IF Len(s) > 1 /\ Char(s, 1) = "-" /\ IsDigits(SubSeq(s, 2, Len(s)))
    THEN Return(0 - DigitsValue(SubSeq(s, 2, Len(s))))
    ELSE IF Len(s) > 1 /\ Char(s, 1) = "+" /\ IsDigits(SubSeq(s, 2, Len(s)))
    THEN Return(DigitsValue(SubSeq(s, 2, Len(s))))
    ELSE Raise("ValueError")

\* int(x) of a looked-up value: None and a list are a TypeError
int(v) == IF v[1] = "str" THEN ParseInt(v[2]) ELSE Raise("TypeError")

\* int(x) inside `try: ... except ValueError: return None`
int_or_none(v) ==
    IF int(v).exc = "ValueError" THEN ReturnNone ELSE int(v)

\* a property decodes the looked-up value unless the lookup raised
Decode(r, decoded) == IF r.exc # "None" THEN r ELSE decoded

\* is_on, line 225
is_on ==
    LET fpwr == get_field_value("fpwr")
    IN  Decode(fpwr, Return(Value(fpwr) = Str("ON")))

\* speed, lines 231-234
speed ==
    LET fnsp == get_field_value("fnsp")
    IN  Decode(fnsp, IF Value(fnsp) = Str("AUTO") THEN ReturnNone
                     ELSE int(Value(fnsp)))

\* oscillating, line 240
oscillating ==
    LET oson == get_field_value("oson")
    IN  Decode(oson, Return(Value(oson) \in { Str("OION"), Str("ON") }))

\* oscillate_lower, lines 246-247
oscillate_lower ==
    LET osal == get_field_value("osal")
    IN  Decode(osal, int(Value(osal)))

\* oscillate_upper, lines 253-254
oscillate_upper ==
    LET osau == get_field_value("osau")
    IN  Decode(osau, int(Value(osau)))

\* a derivation in which the automatic mode hides the night mode
preset_mode_AutoFirst ==
    LET auto == get_field_value("auto")
        nmod == get_field_value("nmod")
    IN  IF auto.exc # "None" THEN auto
        ELSE IF nmod.exc # "None" THEN nmod
        ELSE IF Value(auto) = Str("ON") THEN Return(DYSON_AUTO_MODE)
        ELSE IF Value(nmod) = Str("ON") THEN Return(DYSON_NIGHT_MODE)
        ELSE ReturnNone

\* preset_mode, lines 261-268: the mode derived from the two lookups
preset_mode_from(auto, nmod) ==
    IF auto.exc # "None" THEN auto
    ELSE IF nmod.exc # "None" THEN nmod
    ELSE IF Value(auto) = Str("ON") /\ Value(nmod) = Str("ON")
    THEN Return(DYSON_AUTO_NIGHT_MODE)
    ELSE IF Value(auto) = Str("ON") THEN Return(DYSON_AUTO_MODE)
    ELSE IF Value(nmod) = Str("ON") THEN Return(DYSON_NIGHT_MODE)
    ELSE ReturnNone

\* preset_mode, lines 258-268
preset_mode ==
    preset_mode_from(get_field_value("auto"), get_field_value("nmod"))

\* temperature, lines 291-292: round((float(tact) / 10) - 273.15, 1), in
\* tenths of a degree. tact counts tenths of a kelvin, so the exact
\* difference always ends in 5 hundredths and the binary float lies just
\* above or just below it: the rounding yields one of the two neighbours.
temperature ==
    LET tact == get_field_value("tact")
        kelvin10 == int(Value(tact))
        below == (10 * Value(kelvin10) - 27315) \div 10
    IN  Decode(tact, Decode(kelvin10, Return({ below, below + 1 })))

\* humidity, lines 302-303
humidity ==
    LET hact == get_field_value("hact")
    IN  Decode(hact, int(Value(hact)))

\* pm25, lines 313-317
pm25 ==
    LET v == get_field_value("pm25")
    IN  Decode(v, int_or_none(Value(v)))

\* pm10, lines 327-331
pm10 ==
    LET v == get_field_value("pm10")
    IN  Decode(v, int_or_none(Value(v)))

\* voc, lines 341-345
voc ==
    LET v == get_field_value("va10")
    IN  Decode(v, int_or_none(Value(v)))

\* nox, lines 356-360
nox ==
    LET v == get_field_value("noxl")
    IN  Decode(v, int_or_none(Value(v)))

\* carbon_filter_life, lines 370-374
carbon_filter_life ==
    LET v == get_field_value("cflr")
    IN  Decode(v, int_or_none(Value(v)))

\* hepa_filter_life, lines 384-388
hepa_filter_life ==
    LET v == get_field_value("hflr")
    IN  Decode(v, int_or_none(Value(v)))

\* sleep_timer, lines 393-394
sleep_timer ==
    LET sltm == get_field_value("sltm")
    IN  Decode(sltm, IF Value(sltm) = Str("OFF") THEN Return(0)
                     ELSE int(Value(sltm)))

\* the derived values and the field each of them decodes
Accessors ==
    [ is_on |-> "fpwr", speed |-> "fnsp", oscillating |-> "oson",
      oscillate_lower |-> "osal", oscillate_upper |-> "osau",
      temperature |-> "tact", humidity |-> "hact", pm25 |-> "pm25",
      pm10 |-> "pm10", voc |-> "va10", nox |-> "noxl",
      carbon_filter_life |-> "cflr", hepa_filter_life |-> "hflr",
      sleep_timer |-> "sltm", preset_mode |-> "auto" ]

Accessor(name) ==
    CASE name = "is_on" -> is_on
      [] name = "speed" -> speed
      [] name = "oscillating" -> oscillating
      [] name = "oscillate_lower" -> oscillate_lower
      [] name = "oscillate_upper" -> oscillate_upper
      [] name = "temperature" -> temperature
      [] name = "humidity" -> humidity
      [] name = "pm25" -> pm25
      [] name = "pm10" -> pm10
      [] name = "voc" -> voc
      [] name = "nox" -> nox
      [] name = "carbon_filter_life" -> carbon_filter_life
      [] name = "hepa_filter_life" -> hepa_filter_life
      [] name = "sleep_timer" -> sleep_timer
      [] name = "preset_mode" -> preset_mode

\* field codes a caller looks up; "zzzz" is reported by no device
Fields == { Accessors[a] : a \in DOMAIN Accessors } \cup {"nmod", "zzzz"}

\* the variables of the connection, which reads and commands leave alone
clientVars == << connected, disconnected, error, dataVars, pc, state,
                 outcome, sess, subscribed, disc_pending, published, npc, rc,
                 msgVars, callVars, woken_by >>

\* a caller looks a field up
Get_Field_Value(field) ==
    /\ call = NoCall
    /\ call' = [ op |-> "_get_field_value", args |-> << field >> ]
    /\ result' = get_field_value(field)
    /\ sent' = << >>
    /\ UNCHANGED << rpc, seen, touched >>
    /\ UNCHANGED clientVars

\* a caller reads a derived value
Read(name) ==
    /\ call = NoCall
    /\ call' = [ op |-> name, args |-> << >> ]
    /\ result' = Accessor(name)
    /\ sent' = << >>
    /\ UNCHANGED << rpc, seen, touched >>
    /\ UNCHANGED clientVars

-----------------------------------------------------------------------------
(* The command encoder: STATE-SET messages *)

\* decimal digits of a natural number
RECURSIVE ToDecimal(_)
ToDecimal(n) ==
    IF n < Len(DigitChars) THEN DigitChars[n + 1]
    ELSE ToDecimal(n \div Len(DigitChars))
             \o DigitChars[(n % Len(DigitChars)) + 1]

RECURSIVE ZeroPad(_, _)
ZeroPad(s, width) == IF Len(s) >= width THEN s ELSE ZeroPad("0" \o s, width)

\* a formatting that does not pad
Format04d_Unpadded(n) ==
    IF n < 0 THEN "-" \o ToDecimal(0 - n) ELSE ToDecimal(n)

\* f"{n:04d}": the sign, then the digits padded with zeros to a total
\* width of four
Format04d(n) ==
    IF n < 0 THEN "-" \o ZeroPad(ToDecimal(0 - n), 3)
    ELSE ZeroPad(ToDecimal(n), 4)

\* how a command ends and what it published
Fail(e) == [ exc |-> e, sent |-> << >> ]

\* a STATE-SET published without the QoS argument
set_configuration_DefaultQos(kwargs) ==
    [ exc |-> "None",
      sent |-> << [ topic |-> command_topic, msg |-> "STATE-SET",
                    mode_reason |-> "LAPP", data |-> kwargs, qos |-> 0 ] >> ]

\* _set_configuration, lines 169-178: one STATE-SET published with QoS 1
\* (its "time" stamp is left out)
set_configuration(kwargs) ==
    [ exc |-> "None",
      sent |-> << [ topic |-> command_topic, msg |-> "STATE-SET",
                    mode_reason |-> "LAPP", data |-> kwargs, qos |-> 1 ] >> ]

\* range(1, 11) of line 440
SpeedRange == 1..10

\* set_speed, lines 440-442
set_speed(n) ==
    IF n \notin SpeedRange THEN Fail("ValueError")
    ELSE set_configuration([ fpwr |-> Str("ON"), fnsp |-> Str(Format04d(n)) ])

\* turn_on, line 430: formatting None is a TypeError
turn_on ==
    IF speed.exc # "None" THEN Fail(speed.exc)
    ELSE IF speed.val = << >> THEN Fail("TypeError")
    ELSE set_configuration([ fpwr |-> Str("ON"),
                             fnsp |-> Str(Format04d(Value(speed))) ])

\* turn_off, line 435
turn_off == set_configuration([ fpwr |-> Str("OFF") ])

\* set_preset_mode with the night mode forcing the power on
set_preset_mode_NightPowersOn(mode) ==
    IF get_field_value("fpwr").exc # "None"
    THEN Fail(get_field_value("fpwr").exc)
    ELSE IF mode = Str(DYSON_AUTO_NIGHT_MODE)
    THEN set_configuration([ fpwr |-> Str("ON"), auto |-> Str("ON"),
                             nmod |-> Str("ON") ])
    ELSE IF mode = Str(DYSON_AUTO_MODE)
    THEN set_configuration([ fpwr |-> Str("ON"), auto |-> Str("ON"),
                             nmod |-> Str("OFF") ])
    ELSE IF mode = Str(DYSON_NIGHT_MODE)
    THEN set_configuration([ fpwr |-> Str("ON"), auto |-> Str("OFF"),
                             nmod |-> Str("ON") ])
    ELSE set_configuration([ fpwr |-> Value(get_field_value("fpwr")),
                             auto |-> Str("OFF"), nmod |-> Str("OFF") ])

\* set_preset_mode, lines 417-425
set_preset_mode(mode) ==
    LET fpwr == get_field_value("fpwr")
    IN  IF fpwr.exc # "None" THEN Fail(fpwr.exc)
        ELSE IF mode = Str(DYSON_AUTO_NIGHT_MODE)
        THEN set_configuration([ fpwr |-> Str("ON"), auto |-> Str("ON"),
                                 nmod |-> Str("ON") ])
        ELSE IF mode = Str(DYSON_AUTO_MODE)
        THEN set_configuration([ fpwr |-> Str("ON"), auto |-> Str("ON"),
                                 nmod |-> Str("OFF") ])
        ELSE IF mode = Str(DYSON_NIGHT_MODE)
        THEN set_configuration([ fpwr |-> Value(fpwr), auto |-> Str("OFF"),
                                 nmod |-> Str("ON") ])
        ELSE set_configuration([ fpwr |-> Value(fpwr), auto |-> Str("OFF"),
                                 nmod |-> Str("OFF") ])

\* the limits of lines 457, 458 and 460
OSAL_MIN == 5
OSAU_MAX == 355
MIN_SPAN == 30

Max(a, b) == IF a >= b THEN a ELSE b
Min(a, b) == IF a <= b THEN a ELSE b
Abs(a) == IF a < 0 THEN 0 - a ELSE a

\* bounds that are taken in the order given
SwapBounds_Keep(lo, hi) == << lo, hi >>

\* oscillate, lines 454-455: if osal > osau: osal, osau = osau, osal
SwapBounds(lo, hi) == IF lo > hi THEN << hi, lo >> ELSE << lo, hi >>

\* oscillate, lines 457-458: osal = max(osal, 5); osau = min(osau, 355)
ClampBounds(b) == << Max(b[1], OSAL_MIN), Min(b[2], OSAU_MAX) >>

\* int(x) of a float given in halves: truncation towards zero
IntOfHalves(h) == IF h >= 0 THEN h \div 2 ELSE 0 - ((0 - h) \div 2)

\* oscillate, lines 460-461:
\* if abs(osal - osau) < 30: osal = osau = int(osal + abs(osal - osau) / 2)
CollapseBounds(b) ==
    IF Abs(b[1] - b[2]) < MIN_SPAN
    THEN << IntOfHalves(2 * b[1] + Abs(b[1] - b[2])),
            IntOfHalves(2 * b[1] + Abs(b[1] - b[2])) >>
    ELSE b

\* an enabling that always publishes the plain variant
OsonEnabled_Plain(oson) == Str("ON")

\* oscillate, line 463
OsonEnabled(oson) ==
    IF oson \in { Str("OION"), Str("OIOF") } THEN Str("OION") ELSE Str("ON")

\* oscillate, line 467
OsonDisabled(oson) ==
    IF oson \in { Str("OION"), Str("OIOF") } THEN Str("OIOF") ELSE Str("OFF")

\* oscillate, lines 447-468. An argument is << >> for None or << n >>.
oscillate(on, osal, osau) ==
    LET lower == IF osal = << >> THEN oscillate_lower ELSE Return(osal[1])
        upper == IF osau = << >> THEN oscillate_upper ELSE Return(osau[1])
        oson == get_field_value("oson")
    IN  IF on
        THEN IF lower.exc # "None" THEN Fail(lower.exc)
             ELSE IF upper.exc # "None" THEN Fail(upper.exc)
             ELSE IF oson.exc # "None" THEN Fail(oson.exc)
             ELSE LET b == CollapseBounds(ClampBounds(
                               SwapBounds(Value(lower), Value(upper))))
                  IN  set_configuration(
                          [ oson |-> OsonEnabled(Value(oson)),
                            fpwr |-> Str("ON"), ancp |-> Str("CUST"),
                            osal |-> Str(Format04d(b[1])),
                            osau |-> Str(Format04d(b[2])) ])
        ELSE IF oson.exc # "None" THEN Fail(oson.exc)
             ELSE set_configuration([ oson |-> OsonDisabled(Value(oson)) ])

-----------------------------------------------------------------------------
(* The night-mode switch (src/switch.py) *)

\* DysonNightModeSwitchEntity.is_on, line 56
NightModeSwitch_is_on ==
    Decode(preset_mode,
           Return(preset_mode \in { Return(DYSON_NIGHT_MODE),
                                    Return(DYSON_AUTO_NIGHT_MODE) }))

\* DysonNightModeSwitchEntity.turn_on, lines 61-64
NightModeSwitch_turn_on ==
    IF preset_mode.exc # "None" THEN Fail(preset_mode.exc)
    ELSE IF preset_mode = Return(DYSON_AUTO_MODE)
    THEN set_preset_mode(Str(DYSON_AUTO_NIGHT_MODE))
    ELSE set_preset_mode(Str(DYSON_NIGHT_MODE))

\* DysonNightModeSwitchEntity.turn_off, lines 69-72
NightModeSwitch_turn_off ==
    IF preset_mode.exc # "None" THEN Fail(preset_mode.exc)
    ELSE IF preset_mode = Return(DYSON_AUTO_NIGHT_MODE)
    THEN set_preset_mode(Str(DYSON_AUTO_MODE))
    ELSE set_preset_mode(NoValue)

-----------------------------------------------------------------------------
(* Reads and commands of a caller. A call depends on the snapshots and on  *)
(* its arguments only, so each behaviour makes one call.                    *)

\* a command has returned None or raised; what it published is kept
Command(op, args, effect) ==
    /\ call = NoCall
    /\ call' = [ op |-> op, args |-> args ]
    /\ result' = IF effect.exc = "None" THEN ReturnNone ELSE Raise(effect.exc)
    /\ sent' = effect.sent
    /\ UNCHANGED << rpc, seen, touched >>
    /\ UNCHANGED clientVars

Set_Speed(n) == Command("set_speed", << n >>, set_speed(n))

Turn_On == Command("turn_on", << >>, turn_on)

Turn_Off == Command("turn_off", << >>, turn_off)

Set_Preset_Mode(mode) ==
    Command("set_preset_mode", << mode >>, set_preset_mode(mode))

Oscillate(on, osal, osau) ==
    Command("oscillate", << on, osal, osau >>, oscillate(on, osal, osau))

\* the night-mode switch is read, switched on, switched off
Switch_Is_On ==
    /\ call = NoCall
    /\ call' = [ op |-> "switch.is_on", args |-> << >> ]
    /\ result' = NightModeSwitch_is_on
    /\ sent' = << >>
    /\ UNCHANGED << rpc, seen, touched >>
    /\ UNCHANGED clientVars

Switch_Turn_On == Command("switch.turn_on", << >>, NightModeSwitch_turn_on)

Switch_Turn_Off == Command("switch.turn_off", << >>, NightModeSwitch_turn_off)

\* a full product-state object of a CURRENT-STATE message
FullState ==
    [ fpwr |-> Str("ON"), fnsp |-> Str("0004"), auto |-> Str("OFF"),
      nmod |-> Str("OFF"), oson |-> Str("OFF"), osal |-> Str("0045"),
      osau |-> Str("0315"), hflr |-> Str("0090"), cflr |-> Str("0085"),
      sltm |-> Str("OFF") ]

\* product-state objects a device reports: partial objects, the fan off
\* (also with the automatic mode and the night mode left on), the speed on
\* automatic, the night mode, the oscillation variants, a device without
\* carbon filter, and the [previous, current] lists of a STATE-CHANGE
ApiStates ==
    StatePayloads \cup
    {  FullState,
       [ FullState EXCEPT !.fpwr = Str("OFF") ],
       [ FullState EXCEPT !.fpwr = Str("OFF"), !.auto = Str("ON") ],
       [ FullState EXCEPT !.fpwr = Str("OFF"), !.auto = Str("ON"),
                          !.nmod = Str("ON") ],
       [ FullState EXCEPT !.fnsp = Str("AUTO"), !.auto = Str("ON") ],
       [ FullState EXCEPT !.fnsp = Str("AUTO"), !.auto = Str("ON"),
                          !.nmod = Str("ON") ],
       [ FullState EXCEPT !.nmod = Str("ON"), !.sltm = Str("0030") ],
       [ FullState EXCEPT !.oson = Str("ON") ],
       [ FullState EXCEPT !.oson = Str("OION"), !.osal = Str("0100"),
                          !.osau = Str("0110") ],
       [ FullState EXCEPT !.oson = Str("OIOF"), !.cflr = Str("INV") ],
       [ FullState EXCEPT !.fpwr = Pair("OFF", "ON"),
                          !.fnsp = Pair("0004", "0007"),
                          !.oson = Pair("OFF", "OION"),
                          !.auto = Pair("ON", "OFF"),
                          !.sltm = Pair("OFF", "0030") ] }

\* data objects a device reports: measured values, sensors warming up
ApiEnvs ==
    EnvPayloads \cup
    { [ tact |-> Str("2950"), hact |-> Str("0045"), pm25 |-> Str("0004"),
        pm10 |-> Str("0003"), va10 |-> Str("0004"), noxl |-> Str("0005"),
        sltm |-> Str("0015") ],
      [ tact |-> Str("OFF"), hact |-> Str("OFF"), pm25 |-> Str("INIT"),
        pm10 |-> Str("INIT"), va10 |-> Str("INIT"), noxl |-> Str("INIT"),
        sltm |-> Str("OFF") ] }

\* arguments of set_speed: the valid range and some integers around it
SpeedArgs == (1 - SpeedMargin)..(10 + SpeedMargin)

\* arguments of oscillate: None, or an angle near one of the limits, near
\* one minimum span from a limit, or one of some angles far from them
Around(c) == (c - AngleMargin)..(c + AngleMargin)
Angles ==
    Around(OSAL_MIN) \cup Around(OSAL_MIN + MIN_SPAN)
    \cup Around(OSAU_MAX - MIN_SPAN) \cup Around(OSAU_MAX)
    \cup { 0 - 40, 10, 50, 100, 110, 200, 400 }
AngleArgs == { << >> } \cup { << a >> : a \in Angles }

\* arguments of set_preset_mode
ModeArgs == { Str(DYSON_AUTO_NIGHT_MODE), Str(DYSON_AUTO_MODE),
              Str(DYSON_NIGHT_MODE), Str("Sleep mode"), NoValue }

\* the object before any message was received, or the client after a
\* successful connect() with the snapshots it received
ApiInit ==
    /\ \/ /\ state_data = None
          /\ environmental_data = None
       \/ /\ state_data \in ApiStates
          /\ environmental_data \in ApiEnvs
    /\ connected = (state_data # None)
    /\ disconnected = FALSE
    /\ state_data_available = (state_data # None)
    /\ envionment_data_available = (state_data # None)
    /\ error = NoError
    /\ update_listeners = << >>
    /\ pc = "idle"
    /\ state = (state_data # None)
    /\ outcome = IF state_data # None THEN "ok" ELSE "none"
    /\ sess = IF state_data # None THEN "open" ELSE "none"
    /\ subscribed = IF state_data # None THEN { status_topic }
                    ELSE { }
    /\ disc_pending = FALSE
    /\ published = IF state_data # None
                   THEN << request_current_state,
                          request_envionment_data >>
                   ELSE << >>
    /\ npc = "idle"
    /\ rc = IF state_data # None THEN CONNACK_ACCEPTED ELSE NoAck
    /\ msg = NoMsg
    /\ idx = 0
    /\ net_exc = "None"
    /\ calls = IF state_data # None THEN 1 ELSE 0
    /\ nmsgs = 0
    /\ elapsed = 0
    /\ ack_in_call = IF state_data # None THEN CONNACK_ACCEPTED ELSE NoAck
    /\ woken_by = IF state_data # None THEN CONNACK_ACCEPTED ELSE NoAck
    /\ state_in_call = (state_data # None)
    /\ env_in_call = (state_data # None)
    /\ sub_at_request = (state_data # None)
    /\ after_noack = FALSE
    /\ invoked = << >>
    /\ reg_at_start = << >>
    /\ handles = {}
    /\ hub_exc = "None"
    /\ last_handle = NoHandle
    /\ call = NoCall
    /\ result = ReturnNone
    /\ sent = << >>
    /\ rpc = "idle"
    /\ seen = << >>
    /\ touched = { }

\* the read model of a client
ReadNext ==
    \/ \E field \in Fields : Get_Field_Value(field)
    \/ \E name \in DOMAIN Accessors : Read(name)
    \/ Switch_Is_On

SpecRead == ApiInit /\ [][ReadNext]_vars

\* the commands read the state snapshot; one environment snapshot is enough
CmdInit ==
    /\ ApiInit
    /\ environmental_data \in {None} \cup EnvPayloads

\* the command encoder of a client; a disabling oscillate ignores its bounds
CmdNext ==
    \/ \E n \in SpeedArgs : Set_Speed(n)
    \/ Turn_On
    \/ Turn_Off
    \/ \E mode \in ModeArgs : Set_Preset_Mode(mode)
    \/ Switch_Turn_On
    \/ Switch_Turn_Off
    \/ \E on \in BOOLEAN, osal \in AngleArgs, osau \in AngleArgs :
           /\ on \/ osal = osau
           /\ Oscillate(on, osal, osau)

SpecCmd == CmdInit /\ [][CmdNext]_vars

-----------------------------------------------------------------------------
(* The traffic of a client: the connect life cycle, and commands of a      *)
(* caller once connect() has returned.                                      *)

\* the lowest and the highest speed
WireSpeeds == { 1, 10 }

WireNext ==
    \/ Next
    \/ pc = "idle" /\ outcome = "ok" /\ Turn_Off
    \/ \E n \in WireSpeeds : pc = "idle" /\ outcome = "ok" /\ Set_Speed(n)

SpecWire == Init /\ [][WireNext]_vars

-----------------------------------------------------------------------------
(* The set-up of a config entry: async_setup_entry constructs a client,    *)
(* calls connect() on it and stores the client and a coordinator.           *)

\* the base class of each exception class of src/exceptions.py
BaseClass ==
    [ CannotConnect |-> "HomeAssistantError",
      InvalidAuth |-> "HomeAssistantError",
      DysonCannotConnect |-> "Exception",
      DysonInvalidAuth |-> "Exception",
      DysonNotConnected |-> "Exception" ]

\* `except cls:` catches an exception of the class or of a subclass
Catches(cls, exc) ==
    exc = cls \/ (exc \in DOMAIN BaseClass /\ BaseClass[exc] = cls)

\* async_setup_entry, lines 65-102, from the outcome of connect(): what it
\* raises and which keys it has stored in hass.data[DOMAIN]
async_setup_entry(connected_as) ==
    IF connected_as = "ok"
    THEN [ exc |-> "None", val |-> << { "device", "coordinator" } >> ]
    ELSE IF Catches("InvalidAuth", connected_as)
            \/ Catches("CannotConnect", connected_as)
    THEN [ exc |-> "ConfigEntryNotReady", val |-> << { } >> ]
    ELSE [ exc |-> connected_as, val |-> << { } >> ]

\* the first connect() of a new client has returned or raised and
\* async_setup_entry goes on from line 74
Async_Setup_Entry ==
    /\ pc = "idle"
    /\ outcome # "none"
    /\ calls = 1
    /\ call = NoCall
    /\ call' = [ op |-> "async_setup_entry", args |-> << outcome >> ]
    /\ result' = async_setup_entry(outcome)
    /\ sent' = << >>
    /\ UNCHANGED << rpc, seen, touched >>
    /\ UNCHANGED clientVars

SetupNext ==
    \/ Next
    \/ Async_Setup_Entry

SpecSetup == Init /\ [][SetupNext]_vars

-----------------------------------------------------------------------------
(* A lookup on a caller thread while the network thread is in _on_message. *)
(* _get_field_value reads self._state_data and self._environmental_data    *)
(* once per line, and the network thread can rebind either between two of  *)
(* these reads.                                                             *)

\* the lookup has returned or raised
Lookup_Return(r) ==
    /\ result' = r
    /\ rpc' = "done"

\* the lookup goes on to another line
Lookup_Goto(line) ==
    /\ rpc' = line
    /\ UNCHANGED result

\* x[field] of a snapshot: a KeyError when the key is absent
HasKey(data, field) == data # None /\ field \in DOMAIN data

\* s[1] of a string: its second character, an IndexError on a shorter one
SecondChar(s) ==
    IF Len(s) >= 2 THEN Return(Str(Char(s, 2))) ELSE Raise("IndexError")

\* the call is made and line 184 is evaluated: if field in self._state_data
Lookup_Begin(field) ==
    /\ call = NoCall
    /\ rpc = "idle"
    /\ call' = [ op |-> "_get_field_value", args |-> << field >> ]
    /\ seen' = << state_data, environmental_data >>
    /\ IF state_data = None THEN Lookup_Return(Raise("TypeError"))
       ELSE IF field \in DOMAIN state_data THEN Lookup_Goto("is_list")
       ELSE Lookup_Goto("in_environment")
    /\ UNCHANGED << sent, touched >>
    /\ UNCHANGED clientVars

\* line 185: if isinstance(self._state_data[field], list)
Lookup_IsList ==
    /\ rpc = "is_list"
    /\ IF ~HasKey(state_data, call.args[1])
       THEN Lookup_Return(Raise("KeyError"))
       ELSE IF IsList(state_data[call.args[1]])
       THEN Lookup_Goto("return_current")
       ELSE Lookup_Goto("return_value")
    /\ UNCHANGED << call, sent, seen, touched >>
    /\ UNCHANGED clientVars

\* line 186: return self._state_data[field][1]
Lookup_ReturnCurrent ==
    /\ rpc = "return_current"
    /\ IF ~HasKey(state_data, call.args[1])
       THEN Lookup_Return(Raise("KeyError"))
       ELSE IF IsList(state_data[call.args[1]])
       THEN Lookup_Return(Return(Str(state_data[call.args[1]][3])))
       ELSE Lookup_Return(SecondChar(state_data[call.args[1]][2]))
    /\ UNCHANGED << call, sent, seen, touched >>
    /\ UNCHANGED clientVars

\* line 187: return self._state_data[field]
Lookup_ReturnValue ==
    /\ rpc = "return_value"
    /\ IF ~HasKey(state_data, call.args[1])
       THEN Lookup_Return(Raise("KeyError"))
       ELSE Lookup_Return(Return(state_data[call.args[1]]))
    /\ UNCHANGED << call, sent, seen, touched >>
    /\ UNCHANGED clientVars

\* line 189: if field in self._environmental_data; line 192: return None
Lookup_InEnvironment ==
    /\ rpc = "in_environment"
    /\ IF environmental_data = None THEN Lookup_Return(Raise("TypeError"))
       ELSE IF call.args[1] \in DOMAIN environmental_data
       THEN Lookup_Goto("return_environment")
       ELSE Lookup_Return(ReturnNone)
    /\ UNCHANGED << call, sent, seen, touched >>
    /\ UNCHANGED clientVars

\* line 190: return self._environmental_data[field]
Lookup_ReturnEnvironment ==
    /\ rpc = "return_environment"
    /\ IF ~HasKey(environmental_data, call.args[1])
       THEN Lookup_Return(Raise("KeyError"))
       ELSE Lookup_Return(Return(environmental_data[call.args[1]]))
    /\ UNCHANGED << call, sent, seen, touched >>
    /\ UNCHANGED clientVars

\* preset_mode on a caller thread, line 258: the call is made and
\* auto = self._get_field_value("auto") is evaluated; `result` holds the
\* local `auto` until the read returns
PresetMode_ReadAuto ==
    /\ call = NoCall
    /\ rpc = "idle"
    /\ call' = [ op |-> "preset_mode", args |-> << >> ]
    /\ seen' = << state_data, environmental_data >>
    /\ result' = get_field_value("auto")
    /\ rpc' = IF get_field_value("auto").exc = "None" THEN "read_nmod"
              ELSE "done"
    /\ UNCHANGED << sent, touched >>
    /\ UNCHANGED clientVars

\* preset_mode, lines 259-268: nmod = self._get_field_value("nmod") is
\* evaluated and the mode is derived from the two locals
PresetMode_ReadNmod ==
    /\ rpc = "read_nmod"
    /\ result' = preset_mode_from(result, get_field_value("nmod"))
    /\ rpc' = "done"
    /\ UNCHANGED << call, sent, seen, touched >>
    /\ UNCHANGED clientVars

\* math.ceil(percentage_to_ranged_value((low, high), percentage)): the
\* ceiling of (high - low + 1) * percentage / 100 + low - 1
CeilRangedValue(low, high, percentage) ==
    ((high - low + 1) * percentage + 99) \div 100 + low - 1

\* the fan entity's set_percentage, src/fan.py lines 152-155, with
\* SPEED_RANGE = (1, 10)
Fan_set_percentage(percentage) ==
    IF percentage = 0 THEN turn_off
    ELSE set_speed(CeilRangedValue(1, 10, percentage))

\* percentages a caller passes to the fan entity's turn_on
Percentages == { 1, 10, 11, 45, 99, 100 }

\* the fan entity's turn_on(percentage=p), src/fan.py lines 163-164: no
\* preset mode is given and set_percentage(p) runs for a non-zero p
Fan_TurnOn_SetPercentage(p) ==
    /\ p # 0
    /\ call = NoCall
    /\ rpc = "idle"
    /\ call' = [ op |-> "fan.turn_on", args |-> << p >> ]
    /\ seen' = << state_data, environmental_data >>
    /\ LET effect == Fan_set_percentage(p)
       IN  /\ sent' = effect.sent
           /\ result' = IF effect.exc = "None" THEN ReturnNone
                         ELSE Raise(effect.exc)
           /\ rpc' = IF effect.exc = "None" THEN "device_turn_on" ELSE "done"
    /\ UNCHANGED touched
    /\ UNCHANGED clientVars

\* the fan entity's turn_on, src/fan.py line 166: self._device.turn_on(),
\* which reads the speed of the snapshot it finds
Fan_TurnOn_DeviceTurnOn ==
    /\ rpc = "device_turn_on"
    /\ sent' = sent \o turn_on.sent
    /\ result' = IF turn_on.exc = "None" THEN ReturnNone
                  ELSE Raise(turn_on.exc)
    /\ rpc' = "done"
    /\ UNCHANGED << call, seen, touched >>
    /\ UNCHANGED clientVars

\* a connected client that holds both snapshots
RaceInit ==
    /\ ApiInit
    /\ state_data # None
    /\ environmental_data # None

\* one lookup, one read of the preset mode or one turn_on of the fan
\* entity, and one inbound message, interleaved line by line
RaceNext ==
    \/ \E field \in Fields : Lookup_Begin(field)
    \/ Lookup_IsList
    \/ Lookup_ReturnCurrent
    \/ Lookup_ReturnValue
    \/ Lookup_InEnvironment
    \/ Lookup_ReturnEnvironment
    \/ PresetMode_ReadAuto
    \/ PresetMode_ReadNmod
    \/ \E p \in Percentages : Fan_TurnOn_SetPercentage(p)
    \/ Fan_TurnOn_DeviceTurnOn
    \/ \E m \in Payloads : nmsgs = 0 /\ OnMessage_Begin(m)
    \/ OnMessage_StoreState
    \/ OnMessage_Dispatch
    \/ OnMessage_StoreEnvironment

SpecRace == RaceInit /\ [][RaceNext]_vars

-----------------------------------------------------------------------------
(* Claims about connect() *)

\* the last connect() has returned or raised
Returned == pc = "idle" /\ outcome # "none"
Failed == Returned /\ outcome # "ok"

\* C1: connect() returns normally only if, during that call, the broker
\* acknowledged with the accepted code and a state message and an
\* environment message were received.
C1_ReturnsOnlyAfterHandshake ==
    (Returned /\ outcome = "ok") =>
        /\ ack_in_call = CONNACK_ACCEPTED
        /\ state_in_call
        /\ env_in_call

\* C2: when the wait of connect() was ended by a refusal, connect() raises
\* the error classified from the refusal code: DysonInvalidAuth for bad
\* username/password, DysonCannotConnect for the four other refusals.
C2_RefusalRaisesClassifiedError ==
    (Returned /\ woken_by \in RefusalCodes) =>
        outcome = IF woken_by = CONNACK_REFUSED_BAD_USERNAME_PASSWORD
                  THEN "DysonInvalidAuth" ELSE "DysonCannotConnect"

\* C3: after connect() has raised, whatever the failure path, the session
\* is closed and holds no subscription.
C3_FailureTearsDownSession ==
    Failed => (sess = "closed" /\ subscribed = { })

C3_Witness_RefusedAndTornDown ==
    /\ Failed
    /\ outcome = "DysonInvalidAuth"
    /\ sess = "closed"

\* C4: when no acknowledgment arrived during the call, or the accepted
\* connection was left without a state or an environment snapshot,
\* connect() raises DysonNotConnected and nothing else.
C4_TimeoutRaisesNotConnected ==
    ( /\ Returned
      /\ \/ ack_in_call = NoAck
         \/ /\ ack_in_call = CONNACK_ACCEPTED
            /\ ~(state_data_available /\ envionment_data_available) )
    => outcome = "DysonNotConnected"

\* C5: on an accepted acknowledgment the subscription is issued before the
\* connected signal is visible, so the first-data requests of that
\* connection are never published before the subscription.
C5_SubscribedBeforeConnectedSignal ==
    /\ (sess = "open" /\ connected) => status_topic \in subscribed
    /\ (ack_in_call = CONNACK_ACCEPTED /\ published # << >>) => sub_at_request

\* C6: the three waits of connect() fall inside one timeout window.
C6_SingleTimeoutWindow ==
    elapsed <= TIMEOUT

\* C7: after a connect() that failed unacknowledged the client holds no
\* session or subscription, and the next connect() succeeds only when it is
\* itself accepted and receives both data messages.
C7_CleanRetryAfterTimeout ==
    /\ (Failed /\ ack_in_call = NoAck) =>
           (sess = "closed" /\ subscribed = { })
    /\ (Returned /\ after_noack /\ outcome = "ok") =>
           /\ ack_in_call = CONNACK_ACCEPTED
           /\ state_in_call
           /\ env_in_call

-----------------------------------------------------------------------------
(* Claims about the notification hub *)

\* _on_message has returned or raised for the message `msg`
Handled == npc = "idle" /\ msg # NoMsg

Range(seq) == { seq[i] : i \in 1..Len(seq) }
Count(seq, f) == Cardinality({ i \in 1..Len(seq) : seq[i] = f })
Others(seq, f) == SelectSeq(seq, LAMBDA x : x # f)

\* one invocation per registered listener, in order, with the snapshot
Expected(regs, data) ==
    [ i \in 1..Len(regs) |-> [ func |-> regs[i], data |-> data ] ]

\* C8: a STATE-CHANGE invokes each listener registered when it arrived
\* exactly once, in registration order, with the new snapshot; a
\* CURRENT-STATE or an ENVIRONMENTAL-CURRENT-SENSOR-DATA invokes none.
C8_EachListenerOnceInOrder ==
    Handled =>
        IF msg.msg = DYSON_STATE_CHANGE
        THEN invoked = Expected(reg_at_start, msg.body)
        ELSE invoked = << >>

\* C9: when a listener raises during the dispatch of a STATE-CHANGE, the
\* listeners registered after it are still invoked.
C9_RaisingListenerIsIsolated ==
    (Handled /\ msg.msg = DYSON_STATE_CHANGE /\ net_exc = "ListenerError") =>
        Len(invoked) = Len(reg_at_start)

\* C10, as claimed: after the handle returned for f was called, f is not
\* registered any more (no later STATE-CHANGE invokes it) and the other
\* listeners are registered as before.
C10_HandleRemovesItsRegistration ==
    (last_handle # NoHandle /\ hub_exc = "None") =>
        /\ last_handle.func \notin Range(update_listeners)
        /\ Others(update_listeners, last_handle.func)
               = Others(last_handle.before, last_handle.func)

\* C10, amended: the handle removes the earliest registration of f that is
\* still in the list and leaves the other entries in their order; f is gone
\* from the list when that was its only registration; when f is not
\* registered the call raises ValueError and changes nothing.
C10_HandleRemovesEarliestRegistration ==
    last_handle # NoHandle =>
        LET f == last_handle.func
            b == last_handle.before
        IN  IF f \in Range(b)
            THEN /\ hub_exc = "None"
                 /\ \E i \in 1..Len(b) :
                       /\ b[i] = f
                       /\ \A j \in 1..(i - 1) : b[j] # f
                       /\ update_listeners =
                              SubSeq(b, 1, i - 1) \o SubSeq(b, i + 1, Len(b))
                 /\ Count(b, f) = 1 => f \notin Range(update_listeners)
            ELSE /\ hub_exc = "ValueError"
                 /\ update_listeners = b

C10_Witness_DuplicateRemoved ==
    /\ last_handle = [ func |-> "f", before |-> << "f", "g", "f" >> ]
    /\ update_listeners = << "g", "f" >>
    /\ hub_exc = "None"

-----------------------------------------------------------------------------
(* Claims about the read model *)

\* both snapshots have been received
Ready == state_data # None /\ environmental_data # None

\* the field is in neither snapshot; a snapshot that was never received
\* holds no field
Absent(field) ==
    /\ state_data = None \/ field \notin DOMAIN state_data
    /\ environmental_data = None \/ field \notin DOMAIN environmental_data

\* C11: with both snapshots, the lookup of a field returns the second
\* element when the state snapshot holds a pair for it, the scalar when it
\* holds a scalar, otherwise the value of the environment snapshot when
\* that holds the field, otherwise no value; the state snapshot takes
\* precedence over the environment snapshot.
C11_LookupPrefersStateSnapshot ==
    (call.op = "_get_field_value" /\ Ready) =>
        LET field == call.args[1]
        IN  IF field \in DOMAIN state_data
            THEN IF state_data[field][1] = "list"
                 THEN result = Return(Str(state_data[field][3]))
                 ELSE result = Return(state_data[field])
            ELSE IF field \in DOMAIN environmental_data
            THEN result = Return(environmental_data[field])
            ELSE result = ReturnNone

C11_Witness_PairShadowsEnvironment ==
    /\ call = [ op |-> "_get_field_value", args |-> << "sltm" >> ]
    /\ Ready
    /\ "sltm" \in DOMAIN state_data
    /\ state_data.sltm = Pair("OFF", "0030")
    /\ "sltm" \in DOMAIN environmental_data
    /\ environmental_data.sltm = Str("0015")
    /\ result = Return(Str("0030"))

\* C12: reading a derived value (speed, oscillate_lower, oscillate_upper,
\* humidity, temperature, pm25, pm10, voc, nox, filter life, sleep_timer,
\* is_on, preset_mode) whose field is in neither snapshot, also before any
\* message was received, returns no value (false for is_on) and does not
\* raise.
C12_AbsentFieldReadsAsNoValue ==
    ( /\ call.op \in DOMAIN Accessors \ {"oscillating"}
      /\ Absent(Accessors[call.op])
      /\ call.op = "preset_mode" => Absent("nmod") )
    => /\ result.exc = "None"
       /\ result.val = IF call.op = "is_on" THEN << FALSE >> ELSE << >>

-----------------------------------------------------------------------------
(* Claims about inbound payloads *)

\* a step of _on_message: the payload arrives, or the body is stored
HandlerStep ==
    \/ nmsgs' # nmsgs
    \/ npc \in {"store_state", "store_environment"} /\ npc' # npc

\* C13: a payload that is not valid JSON, or lacks "msg", or carries a
\* recognised discriminator without its body, is dropped: no step of the
\* handler lets an exception escape, and every step leaves the snapshots,
\* the first-data latches and the listeners as they were and invokes no
\* listener.
C13_MalformedPayloadIsDropped ==
    [][ (msg' \in MalformedMessages /\ HandlerStep) =>
            /\ net_exc' = "None"
            /\ UNCHANGED dataVars
            /\ invoked' = << >> ]_vars

-----------------------------------------------------------------------------
(* Claims about the command encoder *)

\* the call published exactly one STATE-SET
OneStateSet == Len(sent) = 1 /\ sent[1].msg = "STATE-SET"

\* the string is the 4-digit zero-padded decimal of n
FourDigitsOf(v, n) ==
    /\ v[1] = "str"
    /\ Len(v[2]) = 4
    /\ IsDigits(v[2])
    /\ DigitsValue(v[2]) = n

\* the integer a published field encodes
Encoded(field) == Value(ParseInt(sent[1].data[field][2]))

\* C14: for every integer speed in 1..10 set_speed publishes exactly one
\* STATE-SET whose data is fpwr = "ON" and fnsp = the 4-digit zero-padded
\* decimal of the speed; for every integer outside 1..10 it raises
\* ValueError and publishes nothing.
C14_SetSpeedEncodesOrRejects ==
    call.op = "set_speed" =>
        IF call.args[1] \in 1..10
        THEN /\ result = ReturnNone
             /\ OneStateSet
             /\ DOMAIN sent[1].data = {"fpwr", "fnsp"}
             /\ sent[1].data.fpwr = Str("ON")
             /\ FourDigitsOf(sent[1].data.fnsp, call.args[1])
        ELSE /\ result = Raise("ValueError")
             /\ sent = << >>

C14_Witness_SpeedTenPadded ==
    /\ call = [ op |-> "set_speed", args |-> << 10 >> ]
    /\ OneStateSet
    /\ sent[1].data = [ fpwr |-> Str("ON"), fnsp |-> Str("0010") ]

\* C15: for every state snapshot that reports a speed, fnsp = "AUTO"
\* included, turn_on() publishes exactly one STATE-SET with fpwr = "ON" and
\* a 4-digit zero-padded fnsp, and does not fail.
C15_TurnOnAlwaysPublishes ==
    (call.op = "turn_on" /\ Ready /\ "fnsp" \in DOMAIN state_data) =>
        /\ result = ReturnNone
        /\ OneStateSet
        /\ sent[1].data.fpwr = Str("ON")
        /\ Len(sent[1].data.fnsp[2]) = 4
        /\ IsDigits(sent[1].data.fnsp[2])

\* an enabling oscillate call with two integer bounds
EnablingWithBounds ==
    /\ call.op = "oscillate"
    /\ call.args[1]
    /\ call.args[2] # << >>
    /\ call.args[3] # << >>

\* C16: for every enabling oscillate call with integer bounds the published
\* osal encodes a value of at least 5 and the published osau a value of at
\* most 355.
C16_PublishedBoundsWithinLimits ==
    (EnablingWithBounds /\ OneStateSet) =>
        /\ Encoded("osal") >= 5
        /\ Encoded("osau") <= 355

\* C17: in an enabling oscillate call, when the bounds after swapping and
\* clamping are less than 30 apart both published bounds equal the
\* midpoint of the two clamped bounds, rounded down; otherwise the clamped
\* bounds are published unchanged and distinct.
C17_NarrowSpanCollapsesToMidpoint ==
    (EnablingWithBounds /\ OneStateSet) =>
        LET a == call.args[2][1]
            b == call.args[3][1]
            lower == IF (IF a <= b THEN a ELSE b) < 5 THEN 5
                     ELSE (IF a <= b THEN a ELSE b)
            upper == IF (IF a <= b THEN b ELSE a) > 355 THEN 355
                     ELSE (IF a <= b THEN b ELSE a)
            span == IF upper >= lower THEN upper - lower ELSE lower - upper
        IN  IF span < 30
            THEN /\ Encoded("osal") = (lower + upper) \div 2
                 /\ Encoded("osau") = (lower + upper) \div 2
            ELSE /\ Encoded("osal") = lower
                 /\ Encoded("osau") = upper
                 /\ lower # upper

\* C18: enabling oscillation does not depend on the order of its bounds:
\* oscillate(True, a, b) publishes what oscillate(True, b, a) publishes
\* on the same snapshots.
C18_BoundsOrderIsIrrelevant ==
    EnablingWithBounds =>
        sent = oscillate(TRUE, call.args[3], call.args[2]).sent

C18_Witness_SwappedBoundsPublished ==
    /\ call = [ op |-> "oscillate", args |-> << TRUE, << 200 >>, << 50 >> >> ]
    /\ OneStateSet
    /\ sent[1].data.osal = Str("0050")
    /\ sent[1].data.osau = Str("0200")

\* the oscillation variant the state snapshot reports is the custom one
CustomVariant ==
    Value(get_field_value("oson")) \in { Str("OION"), Str("OIOF") }

\* each bound of the call is given or stored in the state snapshot
BoundsKnown ==
    /\ call.args[2] # << >> \/ "osal" \in DOMAIN state_data
    /\ call.args[3] # << >> \/ "osau" \in DOMAIN state_data

\* C19: on a client holding both snapshots, enabling publishes
\* oson = "OION" when the current oson is OION or OIOF and "ON" otherwise,
\* always with fpwr = "ON"; disabling publishes a mapping that holds only
\* oson, "OIOF" when the current oson is OION or OIOF and "OFF" otherwise.
C19_OscillatePreservesVariant ==
    (call.op = "oscillate" /\ Ready /\ BoundsKnown) =>
        /\ result = ReturnNone
        /\ OneStateSet
        /\ IF call.args[1]
           THEN /\ sent[1].data.oson =
                       IF CustomVariant THEN Str("OION") ELSE Str("ON")
                /\ sent[1].data.fpwr = Str("ON")
           ELSE /\ DOMAIN sent[1].data = {"oson"}
                /\ sent[1].data.oson =
                       IF CustomVariant THEN Str("OIOF") ELSE Str("OFF")

C19_Witness_EnabledFromCustomOff ==
    /\ call.op = "oscillate"
    /\ call.args[1]
    /\ Ready
    /\ "oson" \in DOMAIN state_data
    /\ state_data.oson = Str("OIOF")
    /\ OneStateSet
    /\ sent[1].data.oson = Str("OION")
    /\ sent[1].data.fpwr = Str("ON")

\* C20: on a client holding both snapshots, set_preset_mode publishes
\* exactly one STATE-SET: combined mode -> fpwr ON, auto ON, nmod ON; auto
\* mode -> fpwr ON, auto ON, nmod OFF; night mode -> the current fpwr, auto
\* OFF, nmod ON; any other argument, None included -> the current fpwr,
\* auto OFF, nmod OFF.
C20_PresetModeEncoding ==
    (call.op = "set_preset_mode" /\ Ready) =>
        LET mode == call.args[1]
            current == Value(get_field_value("fpwr"))
        IN  /\ result = ReturnNone
            /\ OneStateSet
            /\ sent[1].data =
                   IF mode = Str("Auto + Night mode")
                   THEN [ fpwr |-> Str("ON"), auto |-> Str("ON"),
                          nmod |-> Str("ON") ]
                   ELSE IF mode = Str("Auto mode")
                   THEN [ fpwr |-> Str("ON"), auto |-> Str("ON"),
                          nmod |-> Str("OFF") ]
                   ELSE IF mode = Str("Night mode")
                   THEN [ fpwr |-> current, auto |-> Str("OFF"),
                          nmod |-> Str("ON") ]
                   ELSE [ fpwr |-> current, auto |-> Str("OFF"),
                          nmod |-> Str("OFF") ]

C20_Witness_NightModeKeepsPowerOff ==
    /\ call = [ op |-> "set_preset_mode", args |-> << Str("Night mode") >> ]
    /\ Ready
    /\ state_data.fpwr = Str("OFF")
    /\ OneStateSet
    /\ sent[1].data = [ fpwr |-> Str("OFF"), auto |-> Str("OFF"),
                        nmod |-> Str("ON") ]

-----------------------------------------------------------------------------
(* Claims about the night mode *)

\* C21: on a client holding both snapshots, for every combination of fpwr,
\* auto and nmod, switching the night-mode switch on or off publishes one
\* STATE-SET whose fpwr is the current fpwr: a fan that is off is not
\* switched on.
C21_NightSwitchKeepsPower ==
    ( /\ call.op \in {"switch.turn_on", "switch.turn_off"}
      /\ Ready
      /\ "fpwr" \in DOMAIN state_data )
    => /\ OneStateSet
       /\ sent[1].data.fpwr = Value(get_field_value("fpwr"))

\* the current value of the field is "ON"
FieldOn(field) == Value(get_field_value(field)) = Str("ON")

\* C22: on a client holding both snapshots, preset_mode is the combined
\* mode when auto and nmod are ON, the auto mode when only auto is ON, the
\* night mode when only nmod is ON and no mode otherwise; the night-mode
\* switch reports on exactly when nmod is ON.
C22_PresetModeFromAutoAndNmod ==
    Ready =>
        /\ call.op = "preset_mode" =>
               result = IF FieldOn("auto") /\ FieldOn("nmod")
                        THEN Return("Auto + Night mode")
                        ELSE IF FieldOn("auto") THEN Return("Auto mode")
                        ELSE IF FieldOn("nmod") THEN Return("Night mode")
                        ELSE ReturnNone
        /\ call.op = "switch.is_on" => result = Return(FieldOn("nmod"))

C22_Witness_SwitchOnInCombinedMode ==
    /\ call.op = "switch.is_on"
    /\ Ready
    /\ FieldOn("auto")
    /\ FieldOn("nmod")
    /\ result = Return(TRUE)

-----------------------------------------------------------------------------
(* Claims about disconnect() and the latches *)

\* the latches, the snapshots, the stored error and the listeners
clientFields == << connected, disconnected, state_data_available,
                   envionment_data_available, state_data, environmental_data,
                   error, update_listeners >>

\* C23: in every state of the client disconnect() can be called and
\* returns; the call leaves the latches, the snapshots, the stored error
\* and the listeners as they are and leaves the client without session;
\* called again on a client without session it changes nothing at all.
C23_DisconnectIsIdempotent ==
    /\ ENABLED Disconnect
    /\ ~ ENABLED (Disconnect /\ clientFields' # clientFields)
    /\ ~ ENABLED (Disconnect /\ sess' \notin {"none", "closed"})
    /\ sess \in {"none", "closed"} => ~ ENABLED (Disconnect /\ vars' # vars)

C23_Witness_DisconnectedAfterSuccess ==
    /\ pc = "idle"
    /\ outcome = "ok"
    /\ sess = "closed"
    /\ disconnected
    /\ ~disc_pending

-----------------------------------------------------------------------------
(* Claims about the dispatch of inbound messages *)

\* the handler stores the body of the message it holds
StoresState == npc = "store_state" /\ npc' # npc
StoresEnvironment == npc = "store_environment" /\ npc' # npc

\* C25: while the message being handled is well-formed, the step that
\* stores a CURRENT-STATE or STATE-CHANGE makes the state snapshot equal to
\* the message's product-state (no field of the previous snapshot is kept)
\* and leaves the environment snapshot; the step that stores an
\* ENVIRONMENTAL-CURRENT-SENSOR-DATA makes the environment snapshot equal
\* to its data and leaves the state snapshot; no other step changes a
\* snapshot; the arrival of a message with another discriminator ends the
\* handler with both snapshots and both latches unchanged and no listener
\* invoked.
C25_DispatchTouchesNamedSnapshotOnly ==
    [][ (msg' \in Messages \cup OtherMessages) =>
            /\ StoresState =>
                   /\ msg.msg \in {DYSON_CURRENT_STATE, DYSON_STATE_CHANGE}
                   /\ state_data' = msg.body
                   /\ UNCHANGED environmental_data
            /\ StoresEnvironment =>
                   /\ msg.msg = DYSON_ENVIRONMENTAL_CURRENT_SENSOR_DATA
                   /\ environmental_data' = msg.body
                   /\ UNCHANGED state_data
            /\ ~(StoresState \/ StoresEnvironment) =>
                   UNCHANGED << state_data, environmental_data >>
            /\ (nmsgs' # nmsgs /\ msg' \in OtherMessages) =>
                   /\ UNCHANGED << state_data, environmental_data,
                                   state_data_available,
                                   envionment_data_available >>
                   /\ invoked' = << >>
                   /\ npc' = "idle" ]_vars

C25_Witness_PreviousFieldsGone ==
    /\ Handled
    /\ msg = [ msg |-> DYSON_STATE_CHANGE, body |-> [fpwr |-> Str("ON")] ]
    /\ nmsgs = 1
    /\ state_data = [fpwr |-> Str("ON")]
    /\ environmental_data = [pm25 |-> Str("0004")]

-----------------------------------------------------------------------------
(* Claims about the handshake of connect() *)

\* the two requests for the first data, in the order of lines 138-139
FirstDataRequests ==
    << request_current_state, request_envionment_data >>

\* C26: a connect() call publishes nothing or, once and in this order, the
\* state request and the environment request; it publishes them only when
\* its wait for the acknowledgment was ended by an accepted CONNACK, never
\* after a timeout or a refusal; a call that returns normally has
\* published them.
C26_FirstDataRequestedOnceAfterAccept ==
    /\ published \in { << >>, FirstDataRequests }
    /\ published # << >> => woken_by = CONNACK_ACCEPTED
    /\ (Returned /\ outcome = "ok") => published = FirstDataRequests

\* C27: whenever the connected latch is set, the most recent connection
\* acknowledgment carried the accepted code.
C27_ConnectedOnlyWhenAccepted ==
    connected => rc = CONNACK_ACCEPTED

\* C28: whenever the first-state latch is set the state snapshot is
\* present, whenever the first-environment latch is set the environment
\* snapshot is present, and after connect() returned normally both
\* snapshots are present.
C28_LatchImpliesSnapshot ==
    /\ state_data_available => state_data # None
    /\ envionment_data_available => environmental_data # None
    /\ (Returned /\ outcome = "ok") => Ready

\* C29: no step clears a first-data latch: once set, the first-state latch
\* and the first-environment latch stay set through inbound messages,
\* disconnect callbacks, environment-data polls, disconnect() calls and
\* further connect() calls.
C29_FirstDataLatchesAreOneShot ==
    [][ /\ state_data_available => state_data_available'
        /\ envionment_data_available => envionment_data_available' ]_vars

C29_Witness_SetAcrossReconnect ==
    /\ calls = 2
    /\ pc = "wait_connected"
    /\ call.op = "request_envionment_data"
    /\ ~state_in_call
    /\ ~env_in_call
    /\ state_data_available
    /\ envionment_data_available

-----------------------------------------------------------------------------
(* Claims about an unexpected disconnection *)

\* the network thread runs the disconnect callback
DisconnectCallback == disc_pending /\ ~disc_pending'

-----------------------------------------------------------------------------
(* Claims about a lookup that runs beside the network thread *)

\* the value of the field in a state snapshot and an environment snapshot
LookupIn(field, s, e) ==
    IF field \in DOMAIN s
    THEN IF s[field][1] = "list" THEN Return(Str(s[field][3]))
         ELSE Return(s[field])
    ELSE IF field \in DOMAIN e THEN Return(e[field])
    ELSE ReturnNone

\* C24: a lookup that runs while the network thread replaces a snapshot
\* does not raise and returns the value of the field in the snapshots held
\* when the lookup began or in the snapshots held after the message.
C24_ConcurrentLookupSeesOneSnapshot ==
    (call.op = "_get_field_value" /\ rpc = "done") =>
        \E s \in { seen[1], state_data } :
            \E e \in { seen[2], environmental_data } :
                result = LookupIn(call.args[1], s, e)

\* C36: under every interleaving of a preset_mode read with an inbound
\* state message, the returned mode is the derivation applied to the auto
\* and nmod fields of one snapshot that was current during the read: the
\* one held when the read began or the one stored by the message.
C36_PresetModeFromOneSnapshot ==
    (call.op = "preset_mode" /\ rpc = "done") =>
        \E s \in { seen[1], state_data } :
            result = preset_mode_from(LookupIn("auto", s, seen[2]),
                                      LookupIn("nmod", s, seen[2]))

-----------------------------------------------------------------------------
(* Claims about the ordering of the published bounds *)

\* C35: for every enabling oscillate call with integer bounds, given or
\* defaulted from the stored bounds, the published osal is less than or
\* equal to the published osau.
C35_PublishedLowerNotAboveUpper ==
    (call.op = "oscillate" /\ call.args[1] /\ OneStateSet) =>
        Encoded("osal") <= Encoded("osau")

-----------------------------------------------------------------------------
(* Claims about repeated connect() calls *)

\* C33: the outcome of a connect() call depends only on the events of that
\* call: a call whose acknowledgment is accepted never raises the error of
\* an earlier refusal, and a call never returns success without an accepted
\* acknowledgment, a state message and an environment message of its own,
\* whatever an earlier call left set.
C33_OutcomeFromOwnEventsOnly ==
    (Returned /\ calls > 1) =>
        /\ ack_in_call = CONNACK_ACCEPTED =>
               outcome \notin { "DysonCannotConnect", "DysonInvalidAuth" }
        /\ outcome = "ok" =>
               /\ ack_in_call = CONNACK_ACCEPTED
               /\ state_in_call
               /\ env_in_call

-----------------------------------------------------------------------------
(* Claims about topics and delivery *)

\* what the client has published: during connect() and by the call
Traffic == Range(published) \cup Range(sent)

\* C32: every published message goes to the command topic and the client
\* subscribes to the status topic only; every STATE-SET is published with
\* QoS 1 and carries "mode-reason": "LAPP" and the field mapping under
\* "data"; the two requests are published with QoS 0.
C32_TopicsAndDelivery ==
    /\ subscribed \subseteq { status_topic }
    /\ \A m \in Traffic :
           /\ m.topic = command_topic
           /\ m.msg \in { "STATE-SET", "REQUEST-CURRENT-STATE",
                          "REQUEST-PRODUCT-ENVIRONMENT-CURRENT-SENSOR-DATA" }
           /\ m.qos = IF m.msg = "STATE-SET" THEN 1 ELSE 0
           /\ m.msg = "STATE-SET" => m.mode_reason = "LAPP"
    /\ call.op = "turn_off" => sent[1].data = [ fpwr |-> Str("OFF") ]
    /\ (call.op = "set_speed" /\ result = ReturnNone) =>
           sent[1].data = [ fpwr |-> Str("ON"),
                            fnsp |-> Str(Format04d(call.args[1])) ]

C32_Witness_SubscribedRequestedAndSet ==
    /\ subscribed = { status_topic }
    /\ published = FirstDataRequests
    /\ call.op = "set_speed"
    /\ Len(sent) = 1

-----------------------------------------------------------------------------
(* Claims about registration during a dispatch *)

\* the number of invocations of f for the message
Invocations(f) == Cardinality({ i \in 1..Len(invoked) : invoked[i].func = f })

\* C37: when listeners are added or removed while a STATE-CHANGE is being
\* dispatched, every listener that was registered when the message arrived
\* and is neither added nor removed during the dispatch is invoked exactly
\* once per registration for that message.
C37_UntouchedListenersInvokedOnce ==
    (Handled /\ msg.msg = DYSON_STATE_CHANGE /\ net_exc = "None") =>
        \A f \in Range(reg_at_start) \ touched :
            Invocations(f) = Count(reg_at_start, f)

-----------------------------------------------------------------------------
(* Claims about the fan entity *)

\* C34: after the fan entity's turn_on(percentage=p) with p in 1..100, the
\* last STATE-SET sent carries the speed derived from p, the ceiling of
\* p/10, for every prior snapshot and whether or not a message arrives in
\* between.
C34_TurnOnKeepsRequestedSpeed ==
    (call.op = "fan.turn_on" /\ rpc = "done") =>
        /\ Len(sent) >= 1
        /\ sent[Len(sent)].msg = "STATE-SET"
        /\ "fnsp" \in DOMAIN sent[Len(sent)].data
        /\ FourDigitsOf(sent[Len(sent)].data.fnsp, (call.args[1] + 9) \div 10)

-----------------------------------------------------------------------------
(* Claims about the set-up of a config entry *)

\* C31: when connect() fails during async_setup_entry (bad credentials,
\* connection refused, or not connected within the timeout) the set-up ends
\* with ConfigEntryNotReady and neither the device nor a coordinator is
\* stored for the entry.
C31_FailedConnectMeansNotReady ==
    (call.op = "async_setup_entry" /\ call.args[1] # "ok") =>
        /\ result.exc = "ConfigEntryNotReady"
        /\ result.val = << { } >>

====
